---- MODULE Spec2Model ----
(***************************************************************************)
(* rocket_csrf: the CsrfFairingBuilder, the CsrfFairing it builds, and the *)
(* fairing's hooks on_attach, on_request and on_response                   *)
(* (src/src/csrf_fairing.rs).                                              *)
(*                                                                         *)
(* Strings are sequences of one-character strings, so that splitting on    *)
(* "/", recognising "<name>" and percent-encoding are computed and not     *)
(* assumed.  An Option is a sequence of length 0 (None) or 1 (Some).       *)
(***************************************************************************)
EXTENDS Integers, Sequences, FiniteSets, TLC

VARIABLES
    builder,    \* the CsrfFairingBuilder's fields
    result,     \* "none" before finalize, then "Ok" or "Err"
    fairing,    \* Option: the CsrfFairing returned by finalize
    managed,    \* whether on_attach put the crypto engine in managed state
    received,   \* Option: the last request as the client sent it
    request,    \* Option: that request after on_request (uri, method, data)
    decision,   \* Option: what on_request did with it
    response,   \* Option: the last response, before and after on_response
    calls       \* the set_exceptions and add_exceptions calls made on the builder

vars ==
    <<builder, result, fairing, managed, received, request, decision, response,
      calls>>

None == <<>>
Some(x) == <<x>>

------------------------------------------------------------------------------
(* Bounds of the model *)

\* longest exception list a builder is given
MaxRules == 2
\* longest request body, in form fields
MaxBody == 3
\* fields of the body that Data::peek shows (Rocket peeks a fixed prefix)
PeekLen == 2
\* longest response body, in lexemes
MaxLen == 3
\* largest auto_insert_max_size given to the builder
MaxThreshold == 3
\* longest chain of set_exceptions and add_exceptions calls on one builder
MaxCalls == 4

------------------------------------------------------------------------------
(* Strings *)

\* the text between two positions of a string
Slice(s, from, to) == [i \in 1..(to - from + 1) |-> s[from + i - 1]]

\* str.split('/'): the text between the separators, empty pieces kept
RECURSIVE SplitFrom(_, _, _)
SplitFrom(s, start, i) ==
    IF i > Len(s) THEN <<Slice(s, start, Len(s))>>
    ELSE IF s[i] = "/" THEN <<Slice(s, start, i - 1)>> \o SplitFrom(s, i + 1, i + 1)
    ELSE SplitFrom(s, start, i + 1)

Split(s) == SplitFrom(s, 1, 1)

\* the pieces joined again with "/"
RECURSIVE Join(_)
Join(segs) ==
    IF Len(segs) = 0 THEN <<>>
    ELSE IF Len(segs) = 1 THEN segs[1]
    ELSE segs[1] \o <<"/">> \o Join(Tail(segs))

\* Uri::percent_encode, one character
EncodeChar(c) ==
    CASE c = "/" -> <<"%", "2", "F">>
      [] c = "%" -> <<"%", "2", "5">>
      [] c = "?" -> <<"%", "3", "F">>
      [] c = "<" -> <<"%", "3", "C">>
      [] c = ">" -> <<"%", "3", "E">>
      [] OTHER -> <<c>>

\* Uri::percent_encode
RECURSIVE PercentEncode(_)
PercentEncode(s) ==
    IF Len(s) = 0 THEN <<>> ELSE EncodeChar(s[1]) \o PercentEncode(Tail(s))

------------------------------------------------------------------------------
(* Path: the path template engine *)

\* one segment of a pattern: "<name>" is a capture, anything else a literal
Segment(seg) ==
    IF Len(seg) >= 3 /\ seg[1] = "<" /\ seg[Len(seg)] = ">"
    THEN [kind |-> "capture", text |-> Slice(seg, 2, Len(seg) - 1)]
    ELSE [kind |-> "literal", text |-> seg]

\* Path::from
PathFrom(pattern) ==
    LET segs == Split(pattern) IN [i \in 1..Len(segs) |-> Segment(segs[i])]

\* the capture names of a template
CaptureNames(path) ==
    {path[i].text : i \in {j \in 1..Len(path) : path[j].kind = "capture"}}

\* Path::extract: the captures of a concrete path, None when it does not match
PathExtract(path, uri) ==
    LET segs == Split(uri) IN
    IF Len(segs) # Len(path) THEN None
    ELSE IF \E i \in 1..Len(path) :
                \/ path[i].kind = "literal" /\ path[i].text # segs[i]
                \/ path[i].kind = "capture" /\ Len(segs[i]) = 0
         THEN None
         ELSE Some([n \in CaptureNames(path) |->
                        segs[CHOOSE i \in 1..Len(path) :
                                path[i].kind = "capture" /\ path[i].text = n]])

\* Path::map: the path generated from captures, None when a name is absent
PathMap(path, param) ==
    IF \E i \in 1..Len(path) :
            path[i].kind = "capture" /\ path[i].text \notin DOMAIN param
    THEN None
    ELSE Some(Join([i \in 1..Len(path) |->
                        IF path[i].kind = "capture"
                        THEN PercentEncode(param[path[i].text])
                        ELSE path[i].text]))

------------------------------------------------------------------------------
(* The crypto engine (csrf crate) and the encodings of its values *)

\* CSRF_FORM_FIELD, the name of the form field that carries the token
CSRF_FORM_FIELD == "csrf-token"

\* a value on the wire: some bytes in some text encoding
Wire(enc, bytes) == [enc |-> enc, bytes |-> bytes]

\* BASE64.decode(..).ok()
Base64Decode(w) == IF w.enc = "base64" THEN Some(w.bytes) ELSE None

\* BASE64URL_NOPAD.decode(..).ok()
Base64UrlDecode(w) == IF w.enc = "base64url" THEN Some(w.bytes) ELSE None

\* csrf_engine.parse_cookie(..).ok(): only bytes the engine sealed as a cookie
ParseCookie(bytes) ==
    CASE bytes = "cookie1" -> Some([id |-> 1])
      [] bytes = "cookie2" -> Some([id |-> 2])
      [] bytes = "issued" -> Some([id |-> 0])
      [] OTHER -> None

\* csrf_engine.parse_token(..).ok(): only bytes the engine sealed as a token
ParseToken(bytes) ==
    CASE bytes = "token1" -> Some([id |-> 1])
      [] bytes = "token2" -> Some([id |-> 2])
      [] OTHER -> None

\* csrf_engine.verify_token_pair: the two were issued together
VerifyTokenPair(token, cookie) == token.id = cookie.id

\* the cookie that the CsrfToken guard issues
IssuedCookie == Wire("base64", "issued")

------------------------------------------------------------------------------
(* CsrfFairingBuilder *)

UriName == <<"u", "r", "i">>

\* CsrfFairingBuilder::new
New ==
    [ duration |-> 60 * 60,
      default_target |-> <<<<"/">>, "Get">>,
      exceptions |-> <<>>,
      auto_insert |-> TRUE,
      auto_insert_disable_prefix |-> <<>>,
      auto_insert_max_size |-> 16 * 1024 ]

\* the (Path, Path, Method) that finalize makes of one exception
CompileException(e) == <<PathFrom(e[1]), PathFrom(e[2]), e[3]>>

\* the probe left out: any default target is taken
DefaultTargetUnchecked(target) == TRUE

\* finalize's probe of the default target: map with the single capture uri
DefaultTargetUsable(target) ==
    Len(PathMap(target, [n \in {UriName} |-> <<>>])) = 1

\* the rules appended at the front
ExtendInFront(exceptions, more) == more \o exceptions

\* Vec::extend: the rules of add_exceptions appended to the builder's, in order
Extend(exceptions, more) == exceptions \o more

\* the CsrfFairing that finalize returns on Ok
Finalized(b) ==
    [ duration |-> b.duration,
      default_target |-> <<PathFrom(b.default_target[1]), b.default_target[2]>>,
      exceptions |-> [i \in 1..Len(b.exceptions) |-> CompileException(b.exceptions[i])],
      auto_insert |-> b.auto_insert,
      auto_insert_disable_prefix |-> b.auto_insert_disable_prefix,
      auto_insert_max_size |-> b.auto_insert_max_size ]

------------------------------------------------------------------------------
(* CsrfFairing::on_request *)

\* the safe set without Connect and Options
SafeMethodsShort == {"Get", "Head"}

SafeMethods == {"Get", "Head", "Connect", "Options"}

Min(a, b) == IF a < b THEN a ELSE b

\* the whole body read instead of the peeked prefix
PeekWholeBody(body) == body

\* data.peek(): the prefix of the body that is available without reading it
Peek(body) == SubSeq(body, 1, Min(PeekLen, Len(body)))

\* from_utf8(..).unwrap_or(""): nothing at all when any byte of it is invalid
FromUtf8OrEmpty(bytes) ==
    IF \E i \in 1..Len(bytes) : ~bytes[i].utf8 THEN <<>> ELSE bytes

\* utils::parse_args: the (key, value) pairs of a form-encoded text, in order
ParseArgs(text) == [i \in 1..Len(text) |-> <<text[i].key, text[i].value>>]

\* what one form field yields as a token: named, decoded and parsed, or nothing
TokenOfField(field) ==
    IF field[1] # CSRF_FORM_FIELD THEN None
    ELSE LET bytes == Base64UrlDecode(field[2]) IN
         IF Len(bytes) = 0 THEN None ELSE ParseToken(bytes[1])

RECURSIVE FirstNamedField(_)
\* the first field of the name taken, whether its value decodes and parses or not
FirstNamedField(fields) ==
    IF Len(fields) = 0 THEN None
    ELSE IF fields[1][1] = CSRF_FORM_FIELD THEN TokenOfField(fields[1])
    ELSE FirstNamedField(Tail(fields))

\* .filter(..).filter_map(..).filter_map(..).next(): the first field that yields one
RECURSIVE FirstToken(_)
FirstToken(fields) ==
    IF Len(fields) = 0 THEN None
    ELSE IF Len(TokenOfField(fields[1])) = 1 THEN TokenOfField(fields[1])
    ELSE FirstToken(Tail(fields))

\* the cookie of the request, decoded and parsed
CookieOf(jar) ==
    IF Len(jar) = 0 THEN None
    ELSE LET bytes == Base64Decode(jar[1]) IN
         IF Len(bytes) = 0 THEN None ELSE ParseCookie(bytes[1])

\* the cookie read once the guard has put its own in the jar
CookieAfterGuard(jar) == CookieOf(Some(IssuedCookie))

\* the cookie on_request verifies against: read from the jar the client sent,
\* before the guard is forced
ClientCookie(jar) == CookieOf(jar)

\* the pairing check left out: any token with any cookie
PairVerifiedUnchecked(token, cookie) ==
    /\ Len(token) = 1
    /\ Len(cookie) = 1

\* the pairing check, made only when both are there
PairVerified(token, cookie) ==
    /\ Len(token) = 1
    /\ Len(cookie) = 1
    /\ VerifyTokenPair(token[1], cookie[1])

\* the exception's method used as a filter on the request's method
ExceptionAppliesSameMethod(e, uri, method) ==
    LET param == PathExtract(e[1], uri) IN
    /\ e[3] = method
    /\ Len(param) = 1
    /\ Len(PathMap(e[2], param[1])) = 1

\* whether exception (src, dst, method) takes a request with this uri and method
ExceptionApplies(e, uri, method) ==
    LET param == PathExtract(e[1], uri) IN
    /\ Len(param) = 1
    /\ Len(PathMap(e[2], param[1])) = 1

\* the loop without its return: the last exception that applies wins
RECURSIVE ScanExceptionsLastWins(_, _, _, _)
ScanExceptionsLastWins(exceptions, uri, method, i) ==
    IF i > Len(exceptions) THEN [hit |-> 0, evaluated |-> Len(exceptions)]
    ELSE LET rest == ScanExceptionsLastWins(exceptions, uri, method, i + 1) IN
         IF rest.hit = 0 /\ ExceptionApplies(exceptions[i], uri, method)
         THEN [hit |-> i, evaluated |-> Len(exceptions)]
         ELSE rest

\* the loop given up at the first source that matches, generated or not
RECURSIVE ScanExceptionsAbort(_, _, _, _)
ScanExceptionsAbort(exceptions, uri, method, i) ==
    IF i > Len(exceptions) THEN [hit |-> 0, evaluated |-> Len(exceptions)]
    ELSE IF Len(PathExtract(exceptions[i][1], uri)) = 1
         THEN IF ExceptionApplies(exceptions[i], uri, method)
              THEN [hit |-> i, evaluated |-> i]
              ELSE [hit |-> 0, evaluated |-> i]
         ELSE ScanExceptionsAbort(exceptions, uri, method, i + 1)

\* the for loop over self.exceptions, from exception i on
RECURSIVE ScanExceptions(_, _, _, _)
ScanExceptions(exceptions, uri, method, i) ==
    IF i > Len(exceptions) THEN [hit |-> 0, evaluated |-> Len(exceptions)]
    ELSE IF ExceptionApplies(exceptions[i], uri, method)
         THEN [hit |-> i, evaluated |-> i]
         ELSE ScanExceptions(exceptions, uri, method, i + 1)

\* the destination generated for the exception that took the request
ExceptionTarget(e, uri) == PathMap(e[2], PathExtract(e[1], uri)[1])

\* the reroute forgotten: the request keeps its uri
DefaultRerouteKeepsUri(self, uri) == Some(uri)

\* the capture uri left out of the map given to the default target
DefaultRerouteNoUri(self, uri) ==
    PathMap(self.default_target[1], [n \in {} |-> uri])

\* uri bound to the request uri as it is, not encoded
DefaultRerouteRaw(self, uri) ==
    PathMap(self.default_target[1], [n \in {UriName} |-> uri])

\* the reroute to the default target, uri bound to the percent-encoded request uri
DefaultReroute(self, uri) ==
    PathMap(self.default_target[1], [n \in {UriName} |-> PercentEncode(uri)])

\* on_request: the request afterwards and what was done to it
OnRequest(self, req) ==
    LET keep == [uri |-> req.uri, method |-> req.method,
                 cookie |-> Some(IssuedCookie), data |-> req.data]
        cookie == ClientCookie(req.cookie)
        token == FirstToken(ParseArgs(FromUtf8OrEmpty(Peek(req.data))))
        scan == ScanExceptions(self.exceptions, req.uri, req.method, 1)
        fallback == DefaultReroute(self, req.uri)
    IN  IF req.method \in SafeMethods
        THEN [request |-> keep,
              decision |-> [outcome |-> "Safe", via |-> "none", rule |-> 0,
                            evaluated |-> 0, cookie |-> None, token |-> None,
                            events |-> <<"guard">>]]
        ELSE IF PairVerified(token, cookie)
        THEN [request |-> keep,
              decision |-> [outcome |-> "Verified", via |-> "none", rule |-> 0,
                            evaluated |-> 0, cookie |-> cookie, token |-> token,
                            events |-> <<"cookie", "guard", "token", "verify">>]]
        ELSE LET events == <<"cookie", "guard", "token">>
                            \o (IF Len(token) = 1 /\ Len(cookie) = 1
                                THEN <<"verify">> ELSE <<>>)
             IN
             IF scan.hit > 0
             THEN [request |-> [keep EXCEPT
                       !.uri = ExceptionTarget(self.exceptions[scan.hit], req.uri)[1],
                       !.method = self.exceptions[scan.hit][3]],
                   decision |-> [outcome |-> "Rejected", via |-> "exception",
                                 rule |-> scan.hit, evaluated |-> scan.evaluated,
                                 cookie |-> cookie, token |-> token,
                                 events |-> events \o <<"set_uri", "set_method">>]]
             ELSE IF Len(fallback) = 1
             THEN [request |-> [keep EXCEPT !.uri = fallback[1],
                                            !.method = self.default_target[2]],
                   decision |-> [outcome |-> "Rejected", via |-> "default",
                                 rule |-> 0, evaluated |-> scan.evaluated,
                                 cookie |-> cookie, token |-> token,
                                 events |-> events \o <<"set_uri", "set_method">>]]
             ELSE [request |-> keep,
                   decision |-> [outcome |-> "Rejected", via |-> "panic",
                                 rule |-> 0, evaluated |-> scan.evaluated,
                                 cookie |-> cookie, token |-> token,
                                 events |-> events \o <<"unwrap_none">>]]

------------------------------------------------------------------------------
(* CsrfFairing::info and CsrfFairing::on_response *)

\* the response hook registered whatever auto_insert says
InfoAlways(self) == {"Attach", "Request", "Response"}

\* info: the hooks the fairing registers
Info(self) ==
    IF self.auto_insert THEN {"Attach", "Request", "Response"}
    ELSE {"Attach", "Request"}

\* str::starts_with
StartsWith(s, prefix) ==
    /\ Len(prefix) <= Len(s)
    /\ \A i \in 1..Len(prefix) : s[i] = prefix[i]

\* the hidden input that carries the token
HiddenInput(token) == <<"<input>", token>>

\* CsrfProxy: the body with the hidden input after every form-opening tag
RECURSIVE Inject(_, _)
Inject(content, token) ==
    IF Len(content) = 0 THEN <<>>
    ELSE IF content[1] = "<form>"
         THEN <<content[1]>> \o HiddenInput(token) \o Inject(Tail(content), token)
         ELSE <<content[1]>> \o Inject(Tail(content), token)

\* a response that declares no type stopped as well
ContentTypeGateStrict(content_type) ==
    Len(content_type) = 0 \/ content_type[1] # "html"

\* the content type gate: only a declared type that is not HTML stops here
ContentTypeGate(content_type) == Len(content_type) = 1 /\ content_type[1] # "html"

\* only the first disabled prefix looked at
PrefixGateFirstOnly(self, uri) ==
    /\ Len(self.auto_insert_disable_prefix) > 0
    /\ StartsWith(uri, self.auto_insert_disable_prefix[1])

\* the prefix gate: the request uri starts with one of the disabled prefixes
PrefixGate(self, uri) ==
    \E i \in 1..Len(self.auto_insert_disable_prefix) :
        StartsWith(uri, self.auto_insert_disable_prefix[i])

\* the boundary left out of the small bodies
SmallEnoughStrict(self, len) == len < self.auto_insert_max_size

\* whether a body of known length is small enough to be processed in full
SmallEnough(self, len) == len <= self.auto_insert_max_size

\* on_response: the response afterwards and the way that was taken
OnResponse(self, uri, guard, resp) ==
    IF ContentTypeGate(resp.content_type)
    THEN [response |-> resp, path |-> "not_html", taken |-> FALSE]
    ELSE IF PrefixGate(self, uri)
    THEN [response |-> resp, path |-> "prefix", taken |-> FALSE]
    ELSE IF Len(guard) = 0
    THEN [response |-> resp, path |-> "no_token", taken |-> FALSE]
    ELSE IF Len(resp.body) = 0
    THEN [response |-> resp, path |-> "no_body", taken |-> TRUE]
    ELSE LET body == resp.body[1] IN
         IF body.kind = "Sized" /\ SmallEnough(self, body.len)
         THEN IF body.fails
              THEN [response |-> [resp EXCEPT !.body = None], path |-> "panic",
                    taken |-> TRUE]
              ELSE [response |->
                        [resp EXCEPT !.body =
                            Some([kind |-> "Sized",
                                  content |-> Inject(body.content, guard[1]),
                                  len |-> Len(Inject(body.content, guard[1])),
                                  fails |-> FALSE,
                                  proxy |-> FALSE])],
                    path |-> "eager", taken |-> TRUE]
         ELSE [response |->
                   [resp EXCEPT !.body =
                       Some([kind |-> "Chunked",
                             content |-> body.content,
                             len |-> body.len,
                             fails |-> body.fails,
                             proxy |-> TRUE])],
               path |-> "stream", taken |-> TRUE]

------------------------------------------------------------------------------
(* What the builder and the clients are given *)

\* every sequence over S of at most n elements
SeqsUpTo(S, n) == UNION {[1..k -> S] : k \in 0..n}

\* rocket::http::Method
Methods ==
    {"Get", "Put", "Post", "Delete", "Options", "Head", "Trace", "Connect", "Patch"}

\* "/", "/v/<uri>", "/v/<x>" and "/<uri>/<x>" with their methods
DefaultTargets ==
    { <<<<"/">>, "Get">>,
      <<<<"/", "v", "/", "<", "u", "r", "i", ">">>, "Post">>,
      <<<<"/", "v", "/", "<", "x", ">">>, "Get">>,
      <<<<"/", "<", "u", "r", "i", ">", "/", "<", "x", ">">>, "Get">> }

\* ("/a/<x>", "/s/<x>", Get), ("/a/<x>", "/o", Post), ("/a/<x>", "/s/<y>", Put)
\* and ("/b", "/b", Post)
ExceptionPool ==
    { << <<"/", "a", "/", "<", "x", ">">>, <<"/", "s", "/", "<", "x", ">">>, "Get" >>,
      << <<"/", "a", "/", "<", "x", ">">>, <<"/", "o">>, "Post" >>,
      << <<"/", "a", "/", "<", "x", ">">>, <<"/", "s", "/", "<", "y", ">">>, "Put" >>,
      << <<"/", "b">>, <<"/", "b">>, "Post" >> }

\* "/a/4", "/a/", "/b" and "/c/d"
Uris ==
    { <<"/", "a", "/", "4">>, <<"/", "a", "/">>, <<"/", "b">>, <<"/", "c", "/", "d">> }

\* the cookie jars of a client: no CSRF cookie, one in the wrong encoding, one
\* that does not parse, and two that the engine issued
CookieJars ==
    { None,
      Some(Wire("base64url", "cookie1")),
      Some(Wire("base64", "noise")),
      Some(Wire("base64", "cookie1")),
      Some(Wire("base64", "cookie2")) }

\* a form field of a body
Field(key, value) == [utf8 |-> TRUE, key |-> key, value |-> value]

\* the pieces a body is made of: token fields that parse, one in the wrong
\* encoding, one that does not parse, a field of another name, invalid UTF-8
BodyPieces ==
    { Field(CSRF_FORM_FIELD, Wire("base64url", "token1")),
      Field(CSRF_FORM_FIELD, Wire("base64url", "token2")),
      Field(CSRF_FORM_FIELD, Wire("base64", "token1")),
      Field(CSRF_FORM_FIELD, Wire("base64url", "noise")),
      Field("name", Wire("base64url", "token1")),
      [utf8 |-> FALSE, key |-> "", value |-> Wire("raw", "noise")] }

\* the requests of the routing specification: every method and uri, the cookie
\* absent, unparsable or parsable, and a body that is empty, holds a token that
\* pairs, does not pair, does not parse or does not decode, or is not UTF-8
RoutedRequests ==
    [ method : Methods,
      uri : Uris,
      cookie : {None, Some(Wire("base64", "noise")), Some(Wire("base64", "cookie1"))},
      data : { <<>>,
               <<Field(CSRF_FORM_FIELD, Wire("base64url", "token1"))>>,
               <<Field(CSRF_FORM_FIELD, Wire("base64url", "token2"))>>,
               <<Field(CSRF_FORM_FIELD, Wire("base64url", "noise"))>>,
               <<Field(CSRF_FORM_FIELD, Wire("base64", "token1"))>>,
               <<[utf8 |-> FALSE, key |-> "", value |-> Wire("raw", "noise")]>> } ]

\* the requests of the token specification: every cookie and body, one uri
TokenRequests ==
    [ method : Methods,
      uri : { <<"/", "a", "/", "4">> },
      cookie : CookieJars,
      data : SeqsUpTo(BodyPieces, MaxBody) ]

\* the requests of the response specification: "/a/4" and "/b", safe or rejected,
\* and a POST for "/b" that is verified
PlainRequests ==
    [ method : {"Get", "Post"},
      uri : { <<"/", "a", "/", "4">>, <<"/", "b">> },
      cookie : {None},
      data : { <<>> } ]
    \cup
    { [ method |-> "Post",
        uri |-> <<"/", "b">>,
        cookie |-> Some(Wire("base64", "cookie1")),
        data |-> <<Field(CSRF_FORM_FIELD, Wire("base64url", "token1"))>> ] }

\* the prefix lists given to the builder: none, "/a", and "/c" with "/b"
PrefixLists ==
    { <<>>, << <<"/", "a">> >>, << <<"/", "c">>, <<"/", "b">> >> }

\* a response body: Sized with its length, or Chunked, over a reader that may fail
Body(kind, content, fails) ==
    [kind |-> kind, content |-> content, len |-> Len(content),
     fails |-> fails, proxy |-> FALSE]

\* the responses of the routes: any content type, no body or any body
Responses ==
    [ content_type : {None, Some("html"), Some("json")},
      body : {None} \cup
             { Some(Body(k, c, f)) : k \in {"Sized", "Chunked"},
                                     c \in SeqsUpTo({"<form>", "text"}, MaxLen),
                                     f \in BOOLEAN } ]

\* the arguments of the calls of a chain: no rule, one rule, and two rules in
\* an order that is not the pool's
CallArguments ==
    LET a == <<<<"/", "a", "/", "<", "x", ">">>, <<"/", "s", "/", "<", "x", ">">>, "Get">>
        b == <<<<"/", "b">>, <<"/", "b">>, "Post">>
    IN  { <<>>, <<a>>, <<b, a>> }

\* what the CsrfToken guard gives on_response: a token, or no success
GuardOutcomes == {None, Some("T")}

------------------------------------------------------------------------------
(* The state machine *)

Init ==
    /\ builder = New
    /\ result = "none"
    /\ fairing = None
    /\ managed = FALSE
    /\ received = None
    /\ request = None
    /\ decision = None
    /\ response = None
    /\ calls = <<>>

\* set_default_target
SetDefaultTarget ==
    /\ result = "none"
    /\ \E t \in DefaultTargets : builder' = [builder EXCEPT !.default_target = t]
    /\ UNCHANGED <<result, fairing, managed, received, request, decision, response,
                   calls>>

\* set_exceptions(exceptions), noted in calls
SetExceptionsCall(exceptions) ==
    /\ builder' = [builder EXCEPT !.exceptions = exceptions]
    /\ calls' = Append(calls, [op |-> "set_exceptions", exceptions |-> exceptions])
    /\ UNCHANGED <<result, fairing, managed, received, request, decision, response>>

\* add_exceptions(exceptions), noted in calls
AddExceptionsCall(exceptions) ==
    /\ builder' = [builder EXCEPT !.exceptions = Extend(@, exceptions)]
    /\ calls' = Append(calls, [op |-> "add_exceptions", exceptions |-> exceptions])
    /\ UNCHANGED <<result, fairing, managed, received, request, decision, response>>

\* set_exceptions as the first call on the builder, with any list of rules
SetExceptions ==
    /\ result = "none"
    /\ calls = <<>>
    /\ \E ex \in SeqsUpTo(ExceptionPool, MaxRules) : SetExceptionsCall(ex)

\* add_exceptions with some rules, while the list has room
AddExceptions ==
    /\ result = "none"
    /\ \E ex \in SeqsUpTo(ExceptionPool, MaxRules - Len(builder.exceptions)) \ {<<>>} :
           AddExceptionsCall(ex)

\* set_exceptions at any place in a chain of up to MaxCalls calls
ChainedSetExceptions ==
    /\ result = "none"
    /\ Len(calls) < MaxCalls
    /\ \E ex \in CallArguments : SetExceptionsCall(ex)

\* add_exceptions at any place in a chain of up to MaxCalls calls
ChainedAddExceptions ==
    /\ result = "none"
    /\ Len(calls) < MaxCalls
    /\ \E ex \in CallArguments : AddExceptionsCall(ex)

\* finalize
Finalize ==
    /\ result = "none"
    /\ IF DefaultTargetUsable(PathFrom(builder.default_target[1]))
       THEN result' = "Ok" /\ fairing' = Some(Finalized(builder))
       ELSE result' = "Err" /\ fairing' = None
    /\ UNCHANGED <<builder, managed, received, request, decision, response, calls>>

\* on_attach
OnAttach ==
    /\ result = "Ok"
    /\ ~managed
    /\ managed' = TRUE
    /\ calls' = <<>>
    /\ UNCHANGED <<builder, result, fairing, received, request, decision, response>>

\* the fairing is attached and no request is being served
Idle == managed /\ received = None

\* a request arrives and on_request runs on it
Handle(req) ==
    /\ received' = Some(req)
    /\ request' = Some(OnRequest(fairing[1], req).request)
    /\ decision' = Some(OnRequest(fairing[1], req).decision)
    /\ response' = None
    /\ UNCHANGED <<builder, result, fairing, managed, calls>>

\* the request has been served and the host drops it
Served ==
    /\ received # None
    /\ received' = None
    /\ request' = None
    /\ decision' = None
    /\ response' = None
    /\ UNCHANGED <<builder, result, fairing, managed, calls>>

RoutedRequest == Idle /\ \E req \in RoutedRequests : Handle(req)

TokenRequest == Idle /\ \E req \in TokenRequests : Handle(req)

\* set_auto_insert
SetAutoInsert ==
    /\ result = "none"
    /\ \E b \in BOOLEAN : builder' = [builder EXCEPT !.auto_insert = b]
    /\ UNCHANGED <<result, fairing, managed, received, request, decision, response,
                   calls>>

\* set_auto_insert_disable_prefix
SetAutoInsertDisablePrefix ==
    /\ result = "none"
    /\ \E l \in PrefixLists :
           builder' = [builder EXCEPT !.auto_insert_disable_prefix = l]
    /\ UNCHANGED <<result, fairing, managed, received, request, decision, response,
                   calls>>

\* set_auto_insert_max_chunk_size
SetAutoInsertMaxChunkSize ==
    /\ result = "none"
    /\ \E n \in 0..MaxThreshold :
           builder' = [builder EXCEPT !.auto_insert_max_size = n]
    /\ UNCHANGED <<result, fairing, managed, received, request, decision, response,
                   calls>>

\* a route answers the request and the response passes the fairing's hooks
Respond ==
    /\ received # None
    /\ response = None
    /\ \E resp \in Responses, guard \in GuardOutcomes :
           response' =
               Some(IF "Response" \in Info(fairing[1])
                    THEN [sent |-> resp, guard |-> guard, hook |-> TRUE,
                          now |-> OnResponse(fairing[1], request[1].uri, guard, resp).response,
                          path |-> OnResponse(fairing[1], request[1].uri, guard, resp).path,
                          taken |-> OnResponse(fairing[1], request[1].uri, guard, resp).taken]
                    ELSE [sent |-> resp, guard |-> guard, hook |-> FALSE,
                          now |-> resp, path |-> "none", taken |-> FALSE])
    /\ UNCHANGED <<builder, result, fairing, managed, received, request, decision,
                   calls>>

PlainRequest == Idle /\ \E req \in PlainRequests : Handle(req)

\* the fairing with any default target and exceptions, serving requests
Next ==
    \/ SetDefaultTarget
    \/ SetExceptions
    \/ AddExceptions
    \/ Finalize
    \/ OnAttach
    \/ RoutedRequest
    \/ Served

Spec == Init /\ [][Next]_vars

\* the fairing of a default builder, serving requests with any cookie and body
NextToken ==
    \/ Finalize
    \/ OnAttach
    \/ TokenRequest
    \/ Served

SpecToken == Init /\ [][NextToken]_vars

\* the fairing with any response settings, serving requests and their responses
NextResponse ==
    \/ SetAutoInsert
    \/ SetAutoInsertDisablePrefix
    \/ SetAutoInsertMaxChunkSize
    \/ Finalize
    \/ OnAttach
    \/ PlainRequest
    \/ Respond
    \/ Served

SpecResponse == Init /\ [][NextResponse]_vars

\* the builder under chains of set_exceptions and add_exceptions, then finalize
NextBuilder ==
    \/ ChainedSetExceptions
    \/ ChainedAddExceptions
    \/ Finalize

SpecBuilder == Init /\ [][NextBuilder]_vars

------------------------------------------------------------------------------
(* Properties of on_request: the token decision *)

\* the request as the client sent it is one that the safe set lets through
SentSafe == received[1].method \in {"Get", "Head", "Connect", "Options"}

\* the client's cookie is there, is base64 and holds a cookie of the engine
SentCookieParses ==
    /\ Len(received[1].cookie) = 1
    /\ received[1].cookie[1].enc = "base64"
    /\ received[1].cookie[1].bytes \in {"cookie1", "cookie2"}

\* the peeked prefix of the body as sent, as form fields (none if not UTF-8)
SentVisible ==
    LET data == received[1].data
        n == IF Len(data) < PeekLen THEN Len(data) ELSE PeekLen
    IN  IF \A i \in 1..n : data[i].utf8 THEN [i \in 1..n |-> data[i]] ELSE <<>>

\* field i of a body is a token field that decodes and parses
IsTokenField(field) ==
    /\ field.utf8
    /\ field.key = "csrf-token"
    /\ field.value.enc = "base64url"
    /\ field.value.bytes \in {"token1", "token2"}

\* the positions in the peeked prefix of the token fields that decode and parse
SentCandidates == {i \in 1..Len(SentVisible) : IsTokenField(SentVisible[i])}

\* the first of them
SentFirstCandidate == CHOOSE i \in SentCandidates : \A j \in SentCandidates : i <= j

\* the client's cookie and the first token of the body were issued together
SentPairs ==
    /\ SentCookieParses
    /\ SentCandidates # {}
    /\ VerifyTokenPair(ParseToken(SentVisible[SentFirstCandidate].value.bytes)[1],
                       ParseCookie(received[1].cookie[1].bytes)[1])

\* the request after on_request is the one that was sent
NotRerouted ==
    /\ request[1].uri = received[1].uri
    /\ request[1].method = received[1].method

\* C1: a request whose method is not safe is Verified, and left as it is, exactly
\* when its cookie parsed, a token field of its body parsed and the two pair;
\* in every other case it is Rejected and rerouted by an exception or to the
\* default target.
C1_VerifiedIffPaired ==
    (received # None /\ ~SentSafe) =>
        /\ decision[1].outcome \in {"Verified", "Rejected"}
        /\ (decision[1].outcome = "Verified") <=> SentPairs
        /\ decision[1].outcome = "Verified" =>
               decision[1].via = "none" /\ NotRerouted
        /\ decision[1].outcome = "Rejected" =>
               decision[1].via \in {"exception", "default"}

\* a Post with a parsed cookie and a parsed token of the same issue was let through
C1_Witness ==
    /\ received # None
    /\ received[1].method = "Post"
    /\ SentPairs
    /\ decision[1].outcome = "Verified"

\* C2: a request whose method is Get, Head, Connect or Options is never verified
\* and keeps its uri and method, whatever its cookie and body and whatever the
\* exceptions.
C2_SafeUntouched ==
    (received # None /\ SentSafe) =>
        /\ decision[1].outcome = "Safe"
        /\ decision[1].events = <<"guard">>
        /\ decision[1].cookie = None
        /\ decision[1].token = None
        /\ decision[1].evaluated = 0
        /\ NotRerouted

\* an Options request that an exception would take, with a cookie and a token that
\* do not pair, went through untouched
C2_Witness ==
    /\ received # None
    /\ received[1].method = "Options"
    /\ Len(fairing[1].exceptions) > 0
    /\ Len(PathExtract(fairing[1].exceptions[1][1], received[1].uri)) = 1
    /\ SentCookieParses
    /\ SentCandidates # {}
    /\ ~SentPairs
    /\ decision[1].outcome = "Safe"
    /\ NotRerouted

------------------------------------------------------------------------------
(* Properties of on_request: the exceptions and the default target *)

\* the source of exception i matches the uri that was sent
SourceMatches(i) ==
    Len(PathExtract(fairing[1].exceptions[i][1], received[1].uri)) = 1

\* and its destination generates from the captures
Generates(i) ==
    /\ SourceMatches(i)
    /\ Len(PathMap(fairing[1].exceptions[i][2],
                   PathExtract(fairing[1].exceptions[i][1], received[1].uri)[1])) = 1

\* the destination that exception i generates for the uri that was sent
Rewrite(i) ==
    PathMap(fairing[1].exceptions[i][2],
            PathExtract(fairing[1].exceptions[i][1], received[1].uri)[1])[1]

\* the exceptions whose source matches and whose destination generates
Generating == {i \in 1..Len(fairing[1].exceptions) : Generates(i)}

\* the request is now at the destination of exception i, with its method
AtException(i) ==
    /\ request[1].uri = Rewrite(i)
    /\ request[1].method = fairing[1].exceptions[i][3]

\* the request is now at the default target, with its method
AtDefaultTarget ==
    /\ Some(request[1].uri) =
           PathMap(fairing[1].default_target[1],
                   [n \in {<<"u", "r", "i">>} |-> PercentEncode(received[1].uri)])
    /\ request[1].method = fairing[1].default_target[2]

Rejected == received # None /\ decision[1].outcome = "Rejected"

\* C3: a Rejected request leaves on_request at the destination and method of an
\* exception whose source matched and whose destination generated, or, when there
\* is no such exception, at the default target with its method; never as it came
\* by falling through both.
C3_RejectedIsRerouted ==
    Rejected =>
        /\ decision[1].via \in {"exception", "default"}
        /\ IF Generating # {}
           THEN \E i \in Generating : AtException(i)
           ELSE AtDefaultTarget

\* a Rejected request that no exception of a non-empty list took is at the
\* default target
C3_Witness ==
    /\ Rejected
    /\ Len(fairing[1].exceptions) > 0
    /\ Generating = {}
    /\ decision[1].via = "default"
    /\ AtDefaultTarget
    /\ request[1].uri # received[1].uri

\* C4: the exception applied to a Rejected request is the one of smallest index
\* among those whose source matches and whose destination generates, and no
\* exception after it is evaluated.
C4_FirstMatchWins ==
    (Rejected /\ Generating # {}) =>
        LET first == CHOOSE i \in Generating : \A j \in Generating : i <= j IN
        /\ decision[1].via = "exception"
        /\ decision[1].rule = first
        /\ decision[1].evaluated = first
        /\ AtException(first)

\* two exceptions with different destinations took the same uri and the request
\* is at the first one's
C4_Witness ==
    /\ Rejected
    /\ \E i, j \in Generating : i < j /\ Rewrite(i) # Rewrite(j)
    /\ decision[1].rule = 1
    /\ AtException(1)
    /\ ~AtException(2)

\* C5: an exception whose source matches but whose destination does not generate
\* is passed over: the request is not rewritten by it and the scan goes on with
\* the exceptions after it and, after the last, with the default target.
C5_FailedGenerationIsNoMatch ==
    Rejected =>
        \A i \in 1..Len(fairing[1].exceptions) :
            (SourceMatches(i) /\ ~Generates(i) /\ \A j \in 1..i : j \notin Generating) =>
                LET later == {k \in Generating : k > i} IN
                /\ decision[1].rule # i
                /\ IF later # {}
                   THEN /\ decision[1].via = "exception"
                        /\ decision[1].rule \in later
                        /\ \A k \in later : decision[1].rule <= k
                        /\ AtException(decision[1].rule)
                   ELSE /\ decision[1].via = "default"
                        /\ decision[1].evaluated = Len(fairing[1].exceptions)
                        /\ AtDefaultTarget

\* the first exception matched without generating and the second one took the
\* request
C5_Witness ==
    /\ Rejected
    /\ Len(fairing[1].exceptions) = 2
    /\ SourceMatches(1)
    /\ ~Generates(1)
    /\ decision[1].rule = 2
    /\ AtException(2)

------------------------------------------------------------------------------
(* Properties of finalize *)

\* the capture names that a pattern references, besides the reserved name uri
ForeignCaptures(pattern) == CaptureNames(PathFrom(pattern)) \ {<<"u", "r", "i">>}

\* C6: finalize returns Err, and no CsrfFairing, exactly when the default target
\* references a capture other than uri; so the default target of every
\* CsrfFairing generates from a capture set that holds uri alone.
C6_FinalizeFailsClosed ==
    /\ result = "Err" =>
           fairing = None /\ ForeignCaptures(builder.default_target[1]) # {}
    /\ result = "Ok" =>
           /\ fairing # None
           /\ ForeignCaptures(builder.default_target[1]) = {}
           /\ fairing[1].default_target[1] = PathFrom(builder.default_target[1])
           /\ \A u \in Uris :
                  Len(PathMap(fairing[1].default_target[1],
                              [n \in {<<"u", "r", "i">>} |-> PercentEncode(u)])) = 1

\* finalize refused a default target that references uri and another capture
C6_Witness ==
    /\ result = "Err"
    /\ fairing = None
    /\ <<"u", "r", "i">> \in CaptureNames(PathFrom(builder.default_target[1]))
    /\ ForeignCaptures(builder.default_target[1]) # {}

\* C7: no CsrfFairing holds an exception whose destination references a capture
\* that its source does not produce.
C7_ExceptionsWellFormed ==
    result = "Ok" =>
        \A i \in 1..Len(fairing[1].exceptions) :
            CaptureNames(fairing[1].exceptions[i][2])
                \subseteq CaptureNames(fairing[1].exceptions[i][1])

\* C8: whether an exception takes a Rejected request depends on the uri alone, not
\* on the method the request came with, and the request leaves with the method of
\* the exception that took it.
C8_MethodIsOutputOnly ==
    Rejected =>
        /\ (decision[1].via = "exception") <=> (Generating # {})
        /\ decision[1].via = "exception" =>
               /\ decision[1].rule \in Generating
               /\ request[1].method = fairing[1].exceptions[decision[1].rule][3]

\* a rejected Put that an exception with method Post took has become a Post
C8_Witness ==
    /\ Rejected
    /\ received[1].method = "Put"
    /\ decision[1].via = "exception"
    /\ fairing[1].exceptions[decision[1].rule][3] = "Post"
    /\ request[1].method = "Post"

------------------------------------------------------------------------------
(* Properties of on_request: the body *)

\* a token field that pairs with the client's cookie lies beyond the peeked prefix
\* and no token field lies within it
TokenBeyondPrefix ==
    /\ SentCookieParses
    /\ \A i \in 1..Len(received[1].data) :
           (i <= PeekLen) => ~(received[1].data[i].key = "csrf-token")
    /\ \E i \in 1..Len(received[1].data) :
           /\ i > PeekLen
           /\ IsTokenField(received[1].data[i])
           /\ VerifyTokenPair(ParseToken(received[1].data[i].value.bytes)[1],
                              ParseCookie(received[1].cookie[1].bytes)[1])

\* C9: the body after on_request is the body before it, on every path, and a
\* token that lies beyond the peeked prefix counts as missing: the request is
\* Rejected.
C9_BodyOnlyPeeked ==
    received # None =>
        /\ request[1].data = received[1].data
        /\ (~SentSafe /\ SentCandidates = {}) => decision[1].outcome = "Rejected"
        /\ (~SentSafe /\ TokenBeyondPrefix) =>
               decision[1].outcome = "Rejected" /\ decision[1].token = None

\* a Post whose only token field lies beyond the peeked prefix, and pairs with
\* the cookie, was Rejected with its body whole
C9_Witness ==
    /\ received # None
    /\ received[1].method = "Post"
    /\ TokenBeyondPrefix
    /\ decision[1].outcome = "Rejected"
    /\ request[1].data = received[1].data
    /\ Len(request[1].data) > PeekLen

------------------------------------------------------------------------------
(* Properties of on_response *)

\* on_response ran on a response that passes its gates and has a body: the type
\* is HTML or not declared, no disabled prefix starts the uri, there is a token
HasBodyPastGates ==
    /\ response # None
    /\ response[1].hook
    /\ response[1].sent.content_type \in {None, Some("html")}
    /\ \A i \in 1..Len(fairing[1].auto_insert_disable_prefix) :
           LET prefix == fairing[1].auto_insert_disable_prefix[i] IN
           \/ Len(prefix) > Len(request[1].uri)
           \/ \E k \in 1..Len(prefix) : prefix[k] # request[1].uri[k]
    /\ response[1].guard # None
    /\ response[1].sent.body # None

\* the body that was sent has a known length within the threshold
SentSmall ==
    /\ response[1].sent.body[1].kind = "Sized"
    /\ response[1].sent.body[1].len <= fairing[1].auto_insert_max_size

\* the response now holds one buffer: a sized body that wraps no reader
Materialized ==
    /\ response[1].now.body # None
    /\ response[1].now.body[1].kind = "Sized"
    /\ ~response[1].now.body[1].proxy
    /\ response[1].now.body[1].len = Len(response[1].now.body[1].content)

\* the response now holds a stream: the injector around the reader that was sent
Streamed ==
    /\ response[1].now.body # None
    /\ response[1].now.body[1].kind = "Chunked"
    /\ response[1].now.body[1].proxy
    /\ response[1].now.body[1].content = response[1].sent.body[1].content
    /\ response[1].now.body[1].fails = response[1].sent.body[1].fails

\* C10: for a response past the gates with a body: a known length within
\* auto_insert_max_size, boundary included, takes the eager way, and the body read
\* to its end is replaced by one sized buffer; a known length above it, or an
\* unknown length, gets the streamed injector and is never materialized.
C10_SizeThreshold ==
    HasBodyPastGates =>
        IF SentSmall
        THEN /\ response[1].path \in {"eager", "panic"}
             /\ (response[1].path = "eager") <=> ~response[1].sent.body[1].fails
             /\ response[1].path = "eager" => Materialized
             /\ ~Streamed
        ELSE /\ response[1].path = "stream"
             /\ Streamed
             /\ ~Materialized

\* a sized body with forms whose length is exactly the threshold was materialized
\* with the hidden input in it
C10_Witness ==
    /\ HasBodyPastGates
    /\ response[1].sent.body[1].kind = "Sized"
    /\ response[1].sent.body[1].len = fairing[1].auto_insert_max_size
    /\ response[1].sent.body[1].len > 1
    /\ "<form>" \in {response[1].sent.body[1].content[i] :
                        i \in 1..Len(response[1].sent.body[1].content)}
    /\ response[1].path = "eager"
    /\ Materialized
    /\ response[1].now.body[1].len > response[1].sent.body[1].len


\* the response was stopped by a gate of on_response: it declares a type that is
\* not HTML, or a disabled prefix starts the uri of the request
StoppedAtGate ==
    /\ response # None
    /\ response[1].hook
    /\ \/ /\ response[1].sent.content_type # None
          /\ response[1].sent.content_type # Some("html")
       \/ \E i \in 1..Len(fairing[1].auto_insert_disable_prefix) :
              LET prefix == fairing[1].auto_insert_disable_prefix[i] IN
              /\ Len(prefix) <= Len(request[1].uri)
              /\ \A k \in 1..Len(prefix) : prefix[k] = request[1].uri[k]

\* C11: a response that declares a content type other than HTML, or whose request
\* uri starts with a disabled prefix, leaves on_response with its body, the kind
\* and the length of it unchanged, and its body is never taken.
C11_GateBypassesInjector ==
    StoppedAtGate =>
        /\ response[1].now = response[1].sent
        /\ ~response[1].taken
        /\ response[1].path \in {"not_html", "prefix"}

\* an HTML response with a form, for a request under the second disabled prefix,
\* with a token at hand, was left as it was
C11_Witness ==
    /\ StoppedAtGate
    /\ Len(fairing[1].auto_insert_disable_prefix) = 2
    /\ response[1].sent.content_type = Some("html")
    /\ response[1].guard # None
    /\ response[1].sent.body # None
    /\ response[1].sent.body[1].content = <<"<form>">>
    /\ response[1].path = "prefix"
    /\ response[1].now = response[1].sent

\* the reader of the body the handler set fails, and the body reached the injector
ReadFailsUnderInjector ==
    /\ HasBodyPastGates
    /\ response[1].sent.body[1].fails

\* C12: a read error of the upstream body, met while the injector pulls from it, is
\* surfaced to the consumer of the response as an error, on the eager way as on the
\* streaming way: the response keeps a body whose reading yields that error, and
\* on_response handles it by no other means.
C12_ReadErrorsReachConsumer ==
    ReadFailsUnderInjector =>
        /\ response[1].path \in {"eager", "stream"}
        /\ response[1].now.body # None
        /\ response[1].now.body[1].fails

------------------------------------------------------------------------------
\* The default target of a rejected request.

\* C13: a rejected request that no exception takes is rerouted to the default
\* target with the capture `uri` bound to the percent-encoding of the uri the
\* request arrived with, and it takes the method of the default target; a default
\* target without captures yields its own fixed path for every rejected request.
C13_DefaultTargetBinding ==
    (Rejected /\ decision[1].via = "default") =>
        LET target == builder.default_target
            bound  == [n \in {<<"u", "r", "i">>} |-> PercentEncode(received[1].uri)]
        IN  /\ request[1].uri = PathMap(PathFrom(target[1]), bound)[1]
            /\ request[1].method = target[2]
            /\ (\A k \in 1..Len(target[1]) : target[1][k] # "<") =>
                   request[1].uri = target[1]

\* a PUT for /c/d was rejected and sent to the POST default target /v/<uri>,
\* whose path now carries the encoded uri of the request
C13_Witness ==
    /\ Rejected
    /\ decision[1].via = "default"
    /\ received[1].uri = <<"/", "c", "/", "d">>
    /\ received[1].method = "Put"
    /\ builder.default_target[1] = <<"/", "v", "/", "<", "u", "r", "i", ">">>
    /\ request[1].method = "Post"
    /\ SubSeq(request[1].uri, 1, 3) = <<"/", "v", "/">>
    /\ Len(request[1].uri) > 3
    /\ \A k \in 4..Len(request[1].uri) : request[1].uri[k] # "/"

------------------------------------------------------------------------------
(* Properties of the builder: the list of exceptions *)

RECURSIVE LastSetExceptions(_, _)
\* the place in the chain of the last set_exceptions call, 0 when there is none
LastSetExceptions(chain, k) ==
    IF k = 0 THEN 0
    ELSE IF chain[k].op = "set_exceptions" THEN k
    ELSE LastSetExceptions(chain, k - 1)

RECURSIVE ArgumentsFrom(_, _)
\* the arguments of the calls from place k on, one after the other
ArgumentsFrom(chain, k) ==
    IF k > Len(chain) THEN <<>>
    ELSE chain[k].exceptions \o ArgumentsFrom(chain, k + 1)

\* the list the chain of calls asks for: the argument of the last set_exceptions
\* (nothing when there is none), then those of the add_exceptions after it
ListAskedFor ==
    LET k == LastSetExceptions(calls, Len(calls)) IN
    ArgumentsFrom(calls, IF k = 0 THEN 1 ELSE k)

\* C14: whatever the chain of set_exceptions and add_exceptions calls, the builder
\* holds the argument of the last set_exceptions (or nothing) followed by the
\* arguments of every later add_exceptions, in call order and each in its own
\* order, and the fairing that finalize returns holds these rules one to one in
\* the same order.
C14_ExceptionListComposition ==
    ~managed =>
        /\ builder.exceptions = ListAskedFor
        /\ result = "Ok" =>
               /\ Len(fairing[1].exceptions) = Len(ListAskedFor)
               /\ \A i \in 1..Len(ListAskedFor) :
                      fairing[1].exceptions[i] =
                          <<PathFrom(ListAskedFor[i][1]), PathFrom(ListAskedFor[i][2]),
                            ListAskedFor[i][3]>>

\* add_exceptions, set_exceptions, add_exceptions of two rules, add_exceptions,
\* then finalize: the fairing holds the four rules of the last three calls
C14_Witness ==
    /\ result = "Ok"
    /\ Len(calls) = 4
    /\ calls[1].op = "add_exceptions" /\ Len(calls[1].exceptions) = 1
    /\ calls[2].op = "set_exceptions" /\ Len(calls[2].exceptions) = 1
    /\ calls[3].op = "add_exceptions" /\ Len(calls[3].exceptions) = 2
    /\ calls[4].op = "add_exceptions" /\ Len(calls[4].exceptions) = 1
    /\ Len(fairing[1].exceptions) = 4
    /\ fairing[1].exceptions[2][3] = "Post"
    /\ fairing[1].exceptions[3][3] = "Get"

------------------------------------------------------------------------------
(* Properties of info: the hooks registered *)

\* the fairing at hand with its auto_insert the other way round
OtherAutoInsert == [fairing[1] EXCEPT !.auto_insert = ~@]

\* C15: with auto_insert false the fairing registers the attach and request hooks
\* only and no response is modified; with auto_insert true it registers the
\* response hook as well; on_request verifies and reroutes a request the same
\* way under either setting.
C15_AutoInsertOff ==
    /\ fairing # None =>
           Info(fairing[1]) = IF fairing[1].auto_insert
                              THEN {"Attach", "Request", "Response"}
                              ELSE {"Attach", "Request"}
    /\ response # None =>
           /\ response[1].hook = fairing[1].auto_insert
           /\ ~fairing[1].auto_insert =>
                  /\ response[1].now = response[1].sent
                  /\ ~response[1].taken
    /\ received # None =>
           /\ request[1] = OnRequest(OtherAutoInsert, received[1]).request
           /\ decision[1] = OnRequest(OtherAutoInsert, received[1]).decision

\* with auto_insert false a POST was rejected and rerouted, and the small HTML
\* form that answered it, token at hand, went out as the handler set it
C15_Witness ==
    /\ response # None
    /\ ~fairing[1].auto_insert
    /\ fairing[1].auto_insert_disable_prefix = <<>>
    /\ decision[1].outcome = "Rejected"
    /\ request[1].uri # received[1].uri
    /\ ~response[1].hook
    /\ response[1].guard # None
    /\ response[1].sent.content_type = Some("html")
    /\ response[1].sent.body # None
    /\ response[1].sent.body[1].kind = "Sized"
    /\ response[1].sent.body[1].content = <<"<form>">>
    /\ ~response[1].sent.body[1].fails
    /\ response[1].now = response[1].sent

------------------------------------------------------------------------------
(* Properties of on_request: termination *)

\* C16: on_request ends for every request on an attached fairing, whatever its
\* method, uri, cookie and body, in exactly one of two ways, the request passed
\* through as it came or rerouted to a rule's or the default target; the engine
\* is in managed state when it is looked up and the default target's generation
\* yields a path, so on_request never fails at request time.
C16_OnRequestNeverFails ==
    received # None =>
        /\ managed
        /\ decision[1].via \in {"none", "exception", "default"}
        /\ \A k \in 1..Len(decision[1].events) : decision[1].events[k] # "unwrap_none"
        /\ decision[1].via = "none" <=>
               (request[1].uri = received[1].uri /\ request[1].method = received[1].method
                /\ decision[1].outcome \in {"Safe", "Verified"})
        /\ decision[1].via = "exception" <=>
               (decision[1].outcome = "Rejected" /\ decision[1].rule > 0
                /\ AtException(decision[1].rule))
        /\ decision[1].via = "default" <=>
               (decision[1].outcome = "Rejected" /\ decision[1].rule = 0
                /\ AtDefaultTarget)

\* a DELETE whose body is not UTF-8 and whose cookie does not parse ended
\* rerouted to the POST default target /v/<uri>
C16_Witness ==
    /\ received # None
    /\ received[1].method = "Delete"
    /\ received[1].cookie = Some(Wire("base64", "noise"))
    /\ Len(received[1].data) = 1
    /\ ~received[1].data[1].utf8
    /\ builder.default_target[1] = <<"/", "v", "/", "<", "u", "r", "i", ">">>
    /\ decision[1].via = "default"
    /\ request[1].method = "Post"

------------------------------------------------------------------------------
(* Properties of on_request: the order of its steps *)

\* the places of a step in the run of on_request
Places(step) == {k \in 1..Len(decision[1].events) : decision[1].events[k] = step}

\* C17: every run of on_request forces the CsrfToken guard exactly once, for a
\* Safe, a Verified and a Rejected request alike, and before any rewrite of the
\* uri or the method; for a request whose method is not safe the guard comes after
\* the client's cookie has been read and parsed and before the pairing check, so
\* the cookie that is verified is the one the client sent, never the one issued
\* during the request.
C17_GuardForcedOnce ==
    received # None =>
        /\ Cardinality(Places("guard")) = 1
        /\ \A g \in Places("guard") :
               \A k \in Places("set_uri") \cup Places("set_method") : g < k
        /\ ~SentSafe =>
               /\ Cardinality(Places("cookie")) = 1
               /\ \A g \in Places("guard") :
                      /\ \A c \in Places("cookie") : c < g
                      /\ \A v \in Places("verify") : g < v
               /\ decision[1].cookie =
                      (IF SentCookieParses
                       THEN ParseCookie(received[1].cookie[1].bytes)
                       ELSE None)

\* a POST with a cookie and a token that pair was verified against the cookie it
\* came with, while the jar now holds the cookie the guard issued
C17_Witness ==
    /\ received # None
    /\ received[1].method = "Post"
    /\ received[1].cookie = Some(Wire("base64", "cookie1"))
    /\ decision[1].outcome = "Verified"
    /\ decision[1].cookie = Some([id |-> 1])
    /\ decision[1].events = <<"cookie", "guard", "token", "verify">>
    /\ request[1].cookie # received[1].cookie

------------------------------------------------------------------------------
(* Properties of on_request: the choice of the token *)

\* a later token field of the peeked prefix would pair with the client's cookie
\* while the first one that decodes and parses does not
LaterFieldWouldPair ==
    /\ SentCookieParses
    /\ SentCandidates # {}
    /\ ~SentPairs
    /\ \E j \in SentCandidates :
           /\ j > SentFirstCandidate
           /\ ParseToken(SentVisible[j].value.bytes)[1].id =
                  ParseCookie(received[1].cookie[1].bytes)[1].id

\* C18: the token on_request decides on is the first field of the peeked body, in
\* body order, that is named csrf-token and whose value base64url-decodes and
\* parses: fields of that name that fail either step are skipped, fields of other
\* names ignored.  Only this token is paired with the cookie: when it does not
\* pair the request is Rejected even if a later field would pair.  A prefix that
\* is not UTF-8 counts as an empty body: no token.
C18_FirstParsableTokenOnly ==
    (received # None /\ ~SentSafe) =>
        /\ decision[1].token =
               (IF SentCandidates = {} THEN None
                ELSE ParseToken(SentVisible[SentFirstCandidate].value.bytes))
        /\ LaterFieldWouldPair => decision[1].outcome = "Rejected"
        /\ (\E i \in 1..Len(received[1].data) :
                i <= PeekLen /\ ~received[1].data[i].utf8) =>
               /\ decision[1].token = None
               /\ decision[1].outcome = "Rejected"

\* a POST with cookie 1 whose body holds token 2 and then token 1 was rejected
\* on token 2
C18_Witness ==
    /\ received # None
    /\ received[1].method = "Post"
    /\ received[1].cookie = Some(Wire("base64", "cookie1"))
    /\ Len(received[1].data) = 2
    /\ received[1].data[1].value = Wire("base64url", "token2")
    /\ received[1].data[2].value = Wire("base64url", "token1")
    /\ LaterFieldWouldPair
    /\ decision[1].token = Some([id |-> 2])
    /\ decision[1].outcome = "Rejected"

------------------------------------------------------------------------------
(* Properties of on_response: the gates before the injector *)

\* on_response ran and neither gate stopped the response: its type is HTML or
\* not declared and no disabled prefix starts the uri of the request
PastGates ==
    /\ response # None
    /\ response[1].hook
    /\ ~StoppedAtGate

\* C19: the content type gate stops only a response that declares a type other
\* than HTML.  A response that declares no type is handled like an HTML one: with
\* no disabled prefix on its uri, a token and a body, the body is taken and given
\* to the injector.  When there is no token, or no body, on_response leaves the
\* response as it was: no transformed body, no sized and no streamed body set.
C19_UndeclaredTypeIsHtml ==
    (response # None /\ response[1].hook) =>
        /\ response[1].path = "not_html" <=>
               /\ response[1].sent.content_type # None
               /\ response[1].sent.content_type # Some("html")
        /\ (HasBodyPastGates /\ response[1].sent.content_type = None) =>
               /\ response[1].taken
               /\ response[1].path \in {"eager", "stream", "panic"}
               /\ response[1].path = "eager" =>
                      /\ Materialized
                      /\ (\E k \in 1..Len(response[1].sent.body[1].content) :
                              response[1].sent.body[1].content[k] = "<form>")
                         => \E k \in 1..Len(response[1].now.body[1].content) :
                                response[1].now.body[1].content[k] = "<input>"
               /\ response[1].path = "stream" => Streamed
        /\ (PastGates /\ (response[1].guard = None \/ response[1].sent.body = None)) =>
               /\ response[1].now = response[1].sent
               /\ response[1].path \in {"no_token", "no_body"}
               /\ response[1].path = "no_token" <=> response[1].guard = None

\* a small sized body with a form, of no declared type, token at hand, was
\* replaced by a buffer that holds the hidden input
C19_Witness ==
    /\ HasBodyPastGates
    /\ response[1].sent.content_type = None
    /\ response[1].sent.body[1].kind = "Sized"
    /\ response[1].sent.body[1].content = <<"<form>">>
    /\ response[1].path = "eager"
    /\ Materialized
    /\ response[1].now.body[1].content # response[1].sent.body[1].content
    /\ response[1].now.content_type = None

====
